---- MODULE Spec2Model ----
(***************************************************************************)
(* A model of creusot/src/translation/traits.rs: trait-item resolution     *)
(* (TraitResolved::resolve_item, still_specializable, to_opt) and the      *)
(* translation of a trait impl into laws and refinement obligations        *)
(* (translate_impl, logic_refinement_term, evaluate_additional_predicates).*)
(***************************************************************************)
EXTENDS Integers, Sequences, FiniteSets, TLC

VARIABLES
    \* ---- resolution (resolve_item / still_specializable / to_opt)
    tcx,        \* the facts rustc answers: impls, specialization graph, defaultness
    call,       \* the arguments of resolve_item: item, substs, typing_env
    pc,         \* position of the resolution
    source,     \* result of codegen_select_candidate
    infcx,      \* bindings of the coherence-mode inference context (line 394)
    fork,       \* bindings of the forked context of the current trial (line 416)
    leaked,     \* TRUE when a trial began with bindings another trial had made
    trait_ref,  \* still_specializable's trait_ref after instantiate_params_with_infer
    stack,      \* the explicit stack of still_specializable
    node,       \* the node popped last
    popped,     \* history: the nodes popped so far, in order
    spec_ret,   \* return value of still_specializable: "none", "true", "false"
    ret_path,   \* which return of still_specializable was taken
    result,     \* the TraitResolved value
    opt,        \* the value of to_opt
    \* ---- translate_impl
    impl,       \* the facts about the impl being translated
    ipc,        \* position of translate_impl
    idx,        \* index into the sorted implementor map
    laws,       \* the laws vector
    refinements,\* the refinements vector
    solver,     \* history: the pairs evaluate_additional_predicates was run for
    trait_impl, \* the returned TraitImpl, or the value none
    \* ---- logic_refinement_term
    sigs,       \* the two signatures, after instantiation
    rpc,        \* position of logic_refinement_term
    refn        \* the term returned

vars == <<tcx, call, pc, source, infcx, fork, leaked, trait_ref, stack, node, popped,
          spec_ret, ret_path, result, opt,
          impl, ipc, idx, laws, refinements, solver, trait_impl, sigs, rpc, refn>>

resolveVars == <<tcx, call, pc, source, infcx, fork, leaked, trait_ref, stack, node,
                 popped, spec_ret, ret_path, result, opt>>
implVars == <<impl, ipc, idx, laws, refinements, solver, trait_impl>>
refnVars == <<sigs, rpc, refn>>

(***************************************************************************)
(* Bounds of the model.                                                    *)
(***************************************************************************)
\* the number of impls of the trait in one specialization graph
MaxImpls == 3
\* the number of (trait item, impl item) pairs of one impl
MaxItems == 3
\* the number of parameters of a signature
MaxParams == 2

(***************************************************************************)
(* Types.  A type is a sequence of strings: a leaf (a primitive, an ADT    *)
(* without arguments, a type parameter or an inference variable) under a   *)
(* number of applications of the one-argument constructor Vec.             *)
(***************************************************************************)
Last(s) == s[Len(s)]
Front(s) == SubSeq(s, 1, Len(s) - 1)

\* inference variables: ?T stands for the caller's parameter T, the others are the
\* fresh variables an impl's own parameters are instantiated with
InferVars == {"?T", "P", "Q", "P1", "Q1"}
Unbound == <<>>
NoBindings == [v \in InferVars |-> Unbound]

\* shallow resolution of a type under the bindings b, down to its leaf
RECURSIVE Walk(_, _)
Walk(t, b) ==
    IF Last(t) \in InferVars /\ b[Last(t)] # Unbound
    THEN Walk(Front(t) \o b[Last(t)], b)
    ELSE t

Min(a, b) == IF a < b THEN a ELSE b

\* unification of two types under the bindings b (InferCtxt::at(..).eq on one
\* argument): whether they unify, and the bindings as the attempt leaves them
UnifyTy(t1, t2, b) ==
    LET x == Walk(t1, b)
        y == Walk(t2, b)
        k == Min(Len(x), Len(y)) - 1
        xs == SubSeq(x, k + 1, Len(x))
        ys == SubSeq(y, k + 1, Len(y))
    IN  IF xs = ys THEN [ok |-> TRUE, b |-> b]
        ELSE IF Len(xs) = 1 /\ xs[1] \in InferVars /\ Last(ys) # xs[1]
        THEN [ok |-> TRUE, b |-> [b EXCEPT ![xs[1]] = ys]]
        ELSE IF Len(ys) = 1 /\ ys[1] \in InferVars /\ Last(xs) # ys[1]
        THEN [ok |-> TRUE, b |-> [b EXCEPT ![ys[1]] = xs]]
        ELSE [ok |-> FALSE, b |-> b]

\* unification of two trait references (argument lists of equal length)
RECURSIVE UnifyArgs(_, _, _, _)
UnifyArgs(r1, r2, i, b) ==
    IF i > Len(r1) THEN [ok |-> TRUE, b |-> b]
    ELSE LET u == UnifyTy(r1[i], r2[i], b)
         IN  IF u.ok THEN UnifyArgs(r1, r2, i + 1, u.b) ELSE u

UnifyRef(r1, r2, b) == UnifyArgs(r1, r2, 1, b)

(***************************************************************************)
(* The impls of the trait Tr<A>.  DefId 0 is the trait; the impls a crate  *)
(* graph may hold are numbered from 1, each with the trait reference       *)
(* <<Self, A>> of its header (tcx.impl_trait_ref), P and Q its own         *)
(* parameters.                                                             *)
(***************************************************************************)
TraitDef == 0

IntTy == <<"Int">>
PointTy == <<"Point">>
VecOf(t) == <<"Vec">> \o t

AllImpls == {1, 2, 3, 4, 5, 6, 7}

impl_trait_ref(n) ==
    CASE n = 1 -> << <<"P">>, <<"P">> >>                 \* impl<P> Tr<P> for P
      [] n = 2 -> << VecOf(<<"P">>), VecOf(<<"P">>) >>   \* impl<P> Tr<Vec<P>> for Vec<P>
      [] n = 3 -> << VecOf(IntTy), VecOf(IntTy) >>
      [] n = 4 -> << VecOf(PointTy), VecOf(PointTy) >>
      [] n = 5 -> << IntTy, IntTy >>
      [] n = 6 -> << <<"P">>, IntTy >>                     \* impl<P> Tr<Int> for P
      [] n = 7 -> << IntTy, <<"Q">> >>                     \* impl<Q> Tr<Q> for Int

\* the generic parameters of impl n, in declaration order
impl_generics(n) ==
    CASE n \in {1, 2, 6} -> <<"P">>
      [] n = 7 -> <<"Q">>
      [] OTHER -> <<>>

MapLeaf(t, f(_)) == Front(t) \o <<f(Last(t))>>
MapRef(r, f(_)) == [i \in 1..Len(r) |-> MapLeaf(r[i], f)]

\* an impl's parameters as rigid types, and renamed apart
FreezeLeaf(l) == IF l = "P" THEN "cP" ELSE IF l = "Q" THEN "cQ" ELSE l
RenameLeaf(l) == IF l = "P" THEN "P1" ELSE IF l = "Q" THEN "Q1" ELSE l

\* impl n's header is an instance of impl m's: n applies only where m does
InstanceOf(n, m) ==
    UnifyRef(impl_trait_ref(m), MapRef(impl_trait_ref(n), FreezeLeaf), NoBindings).ok
SpecializesRel ==
    {p \in AllImpls \X AllImpls :
        p[1] # p[2] /\ InstanceOf(p[1], p[2]) /\ ~InstanceOf(p[2], p[1])}
OverlapRel ==
    {p \in AllImpls \X AllImpls :
        UnifyRef(impl_trait_ref(p[2]), MapRef(impl_trait_ref(p[1]), RenameLeaf),
                 NoBindings).ok}
Specializes(n, m) == <<n, m>> \in SpecializesRel
Overlap(n, m) == <<n, m>> \in OverlapRel

\* rustc's coherence: two impls that overlap are related by specialization
Coherent(S) ==
    \A n, m \in S : (n # m /\ Overlap(n, m)) => (Specializes(n, m) \/ Specializes(m, n))

\* the impls of S that impl n specializes most closely
Parents(S, n) ==
    {m \in S : /\ Specializes(n, m)
               /\ ~\E k \in S : Specializes(n, k) /\ Specializes(k, m)}

\* graph.parent: the one parent rustc records for a node
ParentOf(S, n) ==
    IF Parents(S, n) = {} THEN TraitDef
    ELSE CHOOSE m \in Parents(S, n) : \A k \in Parents(S, n) : m <= k

\* graph.children of the specialization graph over the impls S
ChildrenOf(S, m) ==
    IF m = TraitDef THEN {n \in S : Parents(S, n) = {}}
    ELSE {n \in S : m \in Parents(S, n)}

(***************************************************************************)
(* DefIds of items, and what tcx answers about them.                       *)
(***************************************************************************)
\* the associated item `f` as the node `owner` (the trait, or an impl) defines it
AssocItem(owner) == [kind |-> "assoc", owner |-> owner]
TraitItem == AssocItem(TraitDef)
FreeFn == [kind |-> "fn", owner |-> TraitDef]
ClosureDef == [kind |-> "closure", owner |-> TraitDef]
NoDid == [kind |-> "none", owner |-> TraitDef]

\* tcx.trait_of_item
trait_of_item(did) ==
    IF did.kind = "assoc" /\ did.owner = TraitDef
    THEN [some |-> TRUE, did |-> TraitDef]
    ELSE [some |-> FALSE, did |-> TraitDef]

\* the number of generic parameters of the trait: Self and A
TraitArity == 2

\* TraitRef::from_method: the arguments of the trait among those of the method
from_method(substs) == SubSeq(substs, 1, TraitArity)

\* GenericArgs::rebase_onto: the first `count` arguments replaced by `target`
rebase_onto(substs, count, target) == target \o SubSeq(substs, count + 1, Len(substs))

\* the impl's header with the impl's parameters replaced by args
InstantiateImpl(n, args) ==
    LET b == [v \in InferVars |->
                IF \E i \in 1..Len(impl_generics(n)) : impl_generics(n)[i] = v
                THEN args[CHOOSE i \in 1..Len(impl_generics(n)) : impl_generics(n)[i] = v]
                ELSE Unbound]
    IN  [i \in 1..TraitArity |-> Walk(impl_trait_ref(n)[i], b)]

\* the arguments of impl n under the bindings b
ImplArgs(n, b) == [i \in 1..Len(impl_generics(n)) |-> Walk(<<impl_generics(n)[i]>>, b)]

\* the children of a node, by Children::blanket_impls and ::non_blanket_impls
IsBlanket(n) == impl_trait_ref(n)[1] \in {<<"P">>, <<"Q">>}
SimplifiedType(n) == Head(impl_trait_ref(n)[1])

\* the elements of S as a sequence, by ascending key (a function on S, injective)
RECURSIVE SortBy(_, _)
SortBy(S, key) ==
    IF S = {} THEN <<>>
    ELSE LET x == CHOOSE y \in S : \A z \in S : key[y] <= key[z]
         IN  <<x>> \o SortBy(S \ {x}, key)

\* ancestor chain of an impl in the specialization graph, the trait last
RECURSIVE ancestors(_, _)
ancestors(t, n) ==
    IF n = TraitDef THEN <<TraitDef>> ELSE <<n>> \o ancestors(t, t.parent[n])

\* whether a node of the graph defines the item itself
NodeHasItem(t, n) == IF n = TraitDef THEN t.provided ELSE t.attr[n].mentions

\* Ancestors::leaf_def: the most specialized definition of the item along the chain
LeafOf(t, chain) ==
    IF \E i \in 1..Len(chain) : NodeHasItem(t, chain[i])
    THEN LET i == CHOOSE j \in 1..Len(chain) :
                    /\ NodeHasItem(t, chain[j])
                    /\ \A k \in 1..(j - 1) : ~NodeHasItem(t, chain[k])
         IN  [some |-> TRUE, defining_node |-> chain[i], item |-> AssocItem(chain[i])]
    ELSE [some |-> FALSE, defining_node |-> TraitDef, item |-> NoDid]

leaf_def(t, n) == LeafOf(t, ancestors(t, n))

\* AssocItem::defaultness(..).is_default(): a trait's own item is always default
ItemIsDefault(t, n) == IF n = TraitDef THEN TRUE ELSE t.attr[n].item_default
\* tcx.defaultness(node).is_default(): `default impl`
NodeIsDefault(t, n) == IF n = TraitDef THEN FALSE ELSE t.attr[n].impl_default

\* get_children (lines 408-412): the blanket impls, then the others grouped by the
\* simplified Self type in insertion order
get_children(t, n) ==
    LET ch == IF n \in DOMAIN t.children THEN t.children[n] ELSE {}
        bl == {c \in ch : IsBlanket(c)}
        nb == ch \ bl
        first(c) == CHOOSE d \in nb : /\ SimplifiedType(d) = SimplifiedType(c)
                                      /\ \A e \in nb : SimplifiedType(e) = SimplifiedType(c)
                                                          => d <= e
    IN  SortBy(bl, [c \in bl |-> c])
        \o SortBy(nb, [c \in nb |-> first(c) * (Cardinality(AllImpls) + 1) + c])

\* instantiate_params_with_infer (lines 322-355): every occurrence of a type
\* parameter becomes the one inference variable created for that parameter
InferLeaf(l) == IF l = "T" THEN "?T" ELSE l
instantiate_params_with_infer(r) == MapRef(r, InferLeaf)

\* orphan_check_trait_ref(.., InCrate::Remote, ..).is_ok() (lines 397-399): a remote
\* crate may implement the reference when one of its arguments may be a type local
\* to that crate, which only an inference variable not under an ADT can be
orphan_check_ok(r) == \E i \in 1..Len(r) : Len(r[i]) = 1 /\ r[i][1] \in InferVars

\* tcx.codegen_select_candidate: a where clause of the typing environment, a builtin
\* impl, or the one most specialized impl whose header matches the reference, the
\* caller's parameters being rigid
NoSource == [kind |-> "none", impl_def_id |-> TraitDef, args |-> <<>>]
codegen_select_candidate(t, bound, r) ==
    LET cands == {n \in t.impls : UnifyRef(impl_trait_ref(n), r, NoBindings).ok}
        best == {n \in cands : ~\E m \in cands : Specializes(m, n)}
    IN  IF r[1] \in {<<"Closure">>, <<"FnPtr">>}
        THEN [NoSource EXCEPT !.kind = "Builtin"]
        ELSE IF bound THEN [NoSource EXCEPT !.kind = "Param"]
        ELSE IF Cardinality(best) = 1
        THEN LET n == CHOOSE m \in best : TRUE
             IN  [kind |-> "UserDefined", impl_def_id |-> n,
                  args |-> ImplArgs(n, UnifyRef(impl_trait_ref(n), r, NoBindings).b)]
        ELSE [NoSource EXCEPT !.kind = "Err"]

\* rustc_trait_selection::traits::translate_args: the arguments of the selected
\* impl as arguments of the node that defines the item
translate_args(source_impl, source_args, target_node) ==
    LET source_ref == InstantiateImpl(source_impl, source_args)
    IN  IF target_node = source_impl THEN source_args
        ELSE IF target_node = TraitDef THEN source_ref
        ELSE ImplArgs(target_node,
                      UnifyRef(impl_trait_ref(target_node), source_ref, NoBindings).b)

(***************************************************************************)
(* TraitResolved and Option<(DefId, GenericArgsRef)>.                      *)
(***************************************************************************)
Resolved(tag) == [tag |-> tag, did |-> NoDid, substs |-> <<>>]
Instance(did, substs) == [tag |-> "Instance", did |-> did, substs |-> substs]
None == [some |-> FALSE, did |-> NoDid, substs |-> <<>>]
Some(did, substs) == [some |-> TRUE, did |-> did, substs |-> substs]

\* the captured types of the closure type, its own substitution
ClosureSubsts == << IntTy >>

\* an Instance answered with the item and the substitution of the call
to_opt_of_call(self, did, substs) ==
    CASE self.tag \in {"Instance", "NotATraitItem", "UnknownFound"} -> Some(did, substs)
      [] OTHER -> None

\* TraitResolved::to_opt (lines 309-319)
to_opt(self, did, substs) ==
    CASE self.tag = "Instance" -> Some(self.did, self.substs)
      [] self.tag \in {"NotATraitItem", "UnknownFound"} -> Some(did, substs)
      [] OTHER -> None

(***************************************************************************)
(* TraitResolved::resolve_item (lines 211-284) with still_specializable    *)
(* (lines 357-434) as the steps it takes.                                  *)
(***************************************************************************)
\* the defaultness of the item alone, a `default impl` overlooked
is_overridable_item_only(t, leaf) == ItemIsDefault(t, leaf.defining_node)

\* lines 379-380: the leaf definition may still be specialized
is_overridable(t, leaf) ==
    ItemIsDefault(t, leaf.defining_node) \/ NodeIsDefault(t, leaf.defining_node)

\* a trial run in the context of the trial before it
fork_ctx_shared(base, previous) == previous

\* line 416: the context a trial runs in, of the base context and the context the
\* trial before it ran in
fork_ctx(base, previous) == base

\* lines 219-235 and 276-283: not a trait item, selection, and the sources that
\* need no search
ResolveItem ==
    /\ pc = "resolve"
    /\ IF ~trait_of_item(call.item).some
       THEN /\ result' = Resolved("NotATraitItem")
            /\ pc' = "to_opt"
            /\ UNCHANGED <<source, trait_ref>>
       ELSE LET r == from_method(call.substs)
                sel == codegen_select_candidate(tcx, call.bound, r)
            IN  /\ source' = sel
                /\ trait_ref' = r
                /\ CASE sel.kind \in {"Err", "UserDefined"} ->
                          /\ pc' = "still_specializable"
                          /\ UNCHANGED result
                     [] sel.kind = "Param" ->
                          /\ result' = Resolved("UnknownFound")
                          /\ pc' = "to_opt"
                     [] sel.kind = "Builtin" /\ call.substs[1] = <<"Closure">> ->
                          /\ result' = Instance(ClosureDef, ClosureSubsts)
                          /\ pc' = "to_opt"
                     [] OTHER ->
                          \* unimplemented!()
                          /\ pc' = "panic"
                          /\ UNCHANGED result
    /\ UNCHANGED <<implVars, refnVars, tcx, call, infcx, fork, leaked, stack, node, popped, spec_ret,
                   ret_path, opt>>

\* lines 372-384: the leaf definition is not marked default
ReturnFrozen ==
    /\ pc = "still_specializable"
    /\ source.kind = "UserDefined"
    /\ leaf_def(tcx, source.impl_def_id).some
    /\ ~is_overridable(tcx, leaf_def(tcx, source.impl_def_id))
    /\ spec_ret' = "false"
    /\ ret_path' = "frozen"
    /\ pc' = "returned"
    /\ UNCHANGED <<implVars, refnVars, tcx, call, source, infcx, fork, leaked, trait_ref, stack, node,
                   popped, result, opt>>

\* the start node of the search (lines 372-389)
start_node(t, src) ==
    IF src.kind = "UserDefined" THEN leaf_def(t, src.impl_def_id).defining_node
    ELSE TraitDef

\* lines 386-414: the start node, the orphan check, the first children
EnterSearch ==
    /\ pc = "still_specializable"
    /\ source.kind = "UserDefined" =>
          /\ leaf_def(tcx, source.impl_def_id).some
          /\ is_overridable(tcx, leaf_def(tcx, source.impl_def_id))
    /\ infcx' = NoBindings
    /\ fork' = NoBindings
    /\ trait_ref' = instantiate_params_with_infer(trait_ref)
    /\ IF orphan_check_ok(trait_ref')
       THEN /\ spec_ret' = "true"
            /\ ret_path' = "orphan"
            /\ pc' = "returned"
            /\ UNCHANGED stack
       ELSE /\ stack' = get_children(tcx, start_node(tcx, source))
            /\ pc' = "loop"
            /\ UNCHANGED <<spec_ret, ret_path>>
    /\ UNCHANGED <<implVars, refnVars, tcx, call, source, leaked, node, popped, result, opt>>

\* lines 415-418: pop a node and fork the context for its trial
SearchPop ==
    /\ pc = "loop"
    /\ stack # <<>>
    /\ node' = Last(stack)
    /\ stack' = Front(stack)
    /\ popped' = Append(popped, Last(stack))
    /\ fork' = fork_ctx(infcx, fork)
    /\ leaked' = (leaked \/ fork_ctx(infcx, fork) # infcx)
    /\ pc' = "eq"
    /\ UNCHANGED <<implVars, refnVars, tcx, call, source, infcx, trait_ref, spec_ret, ret_path, result, opt>>

\* lines 415 and 433: the stack is empty
SearchExhausted ==
    /\ pc = "loop"
    /\ stack = <<>>
    /\ spec_ret' = "false"
    /\ ret_path' = "exhausted"
    /\ pc' = "returned"
    /\ UNCHANGED <<implVars, refnVars, tcx, call, source, infcx, fork, leaked, trait_ref, stack, node,
                   popped, result, opt>>

\* lines 418-426: the node's header, its parameters fresh variables of the fork,
\* against the reference
TrialEq ==
    /\ pc = "eq"
    /\ LET u == UnifyRef(impl_trait_ref(node), trait_ref, fork)
       IN  /\ fork' = u.b
           /\ pc' = IF u.ok THEN "implementor" ELSE "loop"
    /\ UNCHANGED <<implVars, refnVars, tcx, call, source, infcx, leaked, trait_ref, stack, node, popped,
                   spec_ret, ret_path, result, opt>>

\* tcx.impl_item_implementor_ids(node).get(&trait_item_def_id).is_some()
implements_item(t, n) == t.attr[n].mentions

\* lines 427-430: the node implements the item itself, or the search goes on below
CheckImplementor ==
    /\ pc = "implementor"
    /\ IF implements_item(tcx, node)
       THEN /\ spec_ret' = "true"
            /\ ret_path' = "found"
            /\ pc' = "returned"
            /\ UNCHANGED stack
       ELSE /\ stack' = stack \o get_children(tcx, node)
            /\ pc' = "loop"
            /\ UNCHANGED <<spec_ret, ret_path>>
    /\ UNCHANGED <<implVars, refnVars, tcx, call, source, infcx, fork, leaked, trait_ref, node, popped,
                   result, opt>>

\* the item of the selected impl, under the arguments of the selection
instance_of_selected(t, c, src) ==
    Instance(AssocItem(src.impl_def_id), rebase_onto(c.substs, TraitArity, src.args))

\* lines 250-274: the item and the substitution of the instance
instance_of(t, c, src) ==
    LET leaf == leaf_def(t, src.impl_def_id)
        args == translate_args(src.impl_def_id, src.args, leaf.defining_node)
    IN  Instance(leaf.item, rebase_onto(c.substs, TraitArity, args))

\* lines 230-235 and 240-275: what resolve_item makes of the oracle's answer
ResolveFinish ==
    /\ pc = "returned"
    /\ result' = IF source.kind = "Err"
                 THEN IF spec_ret = "true" THEN Resolved("UnknownNotFound")
                      ELSE Resolved("NoInstance")
                 ELSE IF spec_ret = "true" THEN Resolved("UnknownFound")
                      ELSE instance_of(tcx, call, source)
    /\ pc' = "to_opt"
    /\ UNCHANGED <<implVars, refnVars, tcx, call, source, infcx, fork, leaked, trait_ref, stack, node,
                   popped, spec_ret, ret_path, opt>>

\* to_opt on the result, with the item and the substitution of the call
ToOpt ==
    /\ pc = "to_opt"
    /\ opt' = to_opt(result, call.item, call.substs)
    /\ pc' = "done"
    /\ UNCHANGED <<implVars, refnVars, tcx, call, source, infcx, fork, leaked, trait_ref, stack, node,
                   popped, spec_ret, ret_path, result>>

ResolveNext ==
    \/ ResolveItem
    \/ ReturnFrozen
    \/ EnterSearch
    \/ SearchPop
    \/ SearchExhausted
    \/ TrialEq
    \/ CheckImplementor
    \/ ResolveFinish
    \/ ToOpt

(***************************************************************************)
(* The crates and the calls the resolution is checked on.                  *)
(***************************************************************************)
\* what an impl says of the item: it does not mention it, or it defines it, final
\* or `default fn`; and whether the impl is a `default impl`
Attrs ==
    {[mentions |-> FALSE, item_default |-> FALSE, impl_default |-> FALSE],
     [mentions |-> FALSE, item_default |-> FALSE, impl_default |-> TRUE],
     [mentions |-> TRUE, item_default |-> FALSE, impl_default |-> FALSE],
     [mentions |-> TRUE, item_default |-> TRUE, impl_default |-> FALSE],
     [mentions |-> TRUE, item_default |-> FALSE, impl_default |-> TRUE]}

\* the specialization graph over the impls S: a node is a child of every impl it
\* specializes most closely, and graph.parent records the first of them
GraphOf(S) ==
    [children |-> [m \in {k \in S \cup {TraitDef} : ChildrenOf(S, k) # {}}
                      |-> ChildrenOf(S, m)],
     parent |-> [n \in S |-> ParentOf(S, n)],
     parents |-> [n \in S |-> Parents(S, n)]]

\* the facts of a crate with the impls S
MkTcx(S, g, attr, provided) ==
    [impls |-> S, children |-> g.children, parent |-> g.parent, attr |-> attr,
     provided |-> provided]

\* rustc's check_specialization_validity (E0520) on one parent chain: an impl may
\* define the item only if the closest ancestor impl that is not a `default impl`
\* without the item defines it as specializable
RECURSIVE MayOverride(_, _, _)
MayOverride(g, attr, m) ==
    IF attr[m].mentions THEN attr[m].item_default \/ attr[m].impl_default
    ELSE IF attr[m].impl_default THEN \A k \in g.parents[m] : MayOverride(g, attr, k)
    ELSE FALSE

\* rustc accepts the impls: every impl has a definition of the item (E0046), and no
\* impl overrides a definition that is final (E0520)
ValidWorld(t, g) ==
    /\ \A n \in t.impls : leaf_def(t, n).some
    /\ \A n \in t.impls : t.attr[n].mentions =>
          \A m \in g.parents[n] : MayOverride(g, t.attr, m)

ImplSets == {S \in SUBSET AllImpls : Cardinality(S) <= MaxImpls}

WorldsOfSet(S) ==
    LET g == GraphOf(S)
    IN  {t \in {MkTcx(S, g, a, p) : a \in [S -> Attrs], p \in BOOLEAN} : ValidWorld(t, g)}

WorldsOver(Sets) == UNION {WorldsOfSet(S) : S \in Sets}

\* the crates rustc accepts: coherent, so that the graph is a forest
Worlds == WorldsOver({S \in ImplSets : Coherent(S)})

\* the trait references resolved, T the caller's type parameter
Targets ==
    {<< VecOf(<<"T">>), VecOf(<<"T">>) >>,
     << VecOf(IntTy), VecOf(IntTy) >>,
     << IntTy, IntTy >>,
     << PointTy, PointTy >>,
     << <<"T">>, <<"T">> >>,
     << <<"T">>, IntTy >>}

\* the argument of the method's own type parameter
MethodArg == <<"Bool">>

HasParam(r) == \E i \in 1..Len(r) : Last(r[i]) = "T"

\* the calls of resolve_item in the crate t: a call through the trait, with or
\* without a where clause for the reference in the typing environment; and, in a
\* crate without impls of its own, a call of a free function and calls with a
\* closure and a function pointer as Self
CallsIn(t) ==
    {[item |-> TraitItem, substs |-> r \o <<MethodArg>>, bound |-> b] :
        r \in Targets, b \in BOOLEAN}
    \cup (IF t.impls # {} THEN {}
          ELSE {[item |-> FreeFn, substs |-> <<IntTy, IntTy, MethodArg>>, bound |-> FALSE],
                [item |-> TraitItem, substs |-> << <<"Closure">>, IntTy, MethodArg >>,
                 bound |-> FALSE],
                [item |-> TraitItem, substs |-> << <<"FnPtr">>, IntTy, MethodArg >>,
                 bound |-> FALSE]})

ValidCall(c) == c.bound => HasParam(from_method(c.substs))

NoImpl == [impl_id |-> TraitDef, of_trait |-> FALSE, local |-> FALSE, items |-> <<>>]
NoTraitImpl == [some |-> FALSE, laws |-> <<>>, refinements |-> <<>>]
NoSig == [inputs |-> <<>>, output |-> "none", contract |-> [requires |-> <<>>, ensures |-> <<>>]]
NoSigs == [decl_trait |-> NoSig, decl_impl |-> NoSig, self_ty |-> "none",
           pearlite |-> FALSE, trait |-> NoSig, impl |-> NoSig]
NoTerm == <<"none">>

ResolveIdle ==
    /\ pc = "idle" /\ call = [item |-> NoDid, substs |-> <<>>, bound |-> FALSE]
    /\ tcx = MkTcx({}, GraphOf({}), <<>>, FALSE)
    /\ source = NoSource /\ infcx = NoBindings /\ fork = NoBindings /\ leaked = FALSE
    /\ trait_ref = <<>> /\ stack = <<>> /\ node = TraitDef /\ popped = <<>>
    /\ spec_ret = "none" /\ ret_path = "none" /\ result = Resolved("none") /\ opt = None

ImplIdle ==
    /\ impl = NoImpl /\ ipc = "idle" /\ idx = 0 /\ laws = <<>> /\ refinements = <<>>
    /\ solver = <<>> /\ trait_impl = NoTraitImpl

RefnIdle ==
    /\ sigs = NoSigs /\ rpc = "idle" /\ refn = NoTerm

ResolveInitOver(W) ==
    /\ tcx \in W
    /\ call \in {c \in CallsIn(tcx) : ValidCall(c)}
    /\ pc = "resolve"
    /\ source = NoSource /\ infcx = NoBindings /\ fork = NoBindings /\ leaked = FALSE
    /\ trait_ref = <<>> /\ stack = <<>> /\ node = TraitDef /\ popped = <<>>
    /\ spec_ret = "none" /\ ret_path = "none" /\ result = Resolved("none") /\ opt = None
    /\ ImplIdle /\ RefnIdle

Init == ResolveInitOver(Worlds)

Spec == Init /\ [][ResolveNext]_vars

\* the crates of the data model that holds the graph to be any DAG: the impls need
\* not be coherent, and a node may have several parents
LatticeWorlds == WorldsOver(ImplSets)

InitDag == ResolveInitOver(LatticeWorlds)

SpecDag == InitDag /\ [][ResolveNext]_vars

(***************************************************************************)
(* Properties of the resolution.                                           *)
(***************************************************************************)
\* the reference of the call as the oracle unifies against it
TargetOf(c) == instantiate_params_with_infer(from_method(c.substs))

\* the header of impl n unifies with the reference of the call
Unifies(n, c) == UnifyRef(impl_trait_ref(n), TargetOf(c), NoBindings).ok

ChildSet(t, n) == IF n \in DOMAIN t.children THEN t.children[n] ELSE {}

RECURSIVE Descendants(_, _)
Descendants(t, n) ==
    ChildSet(t, n) \cup UNION {Descendants(t, c) : c \in ChildSet(t, n)}

Resolving == call.item = TraitItem /\ pc \in {"to_opt", "done"}

\* C1: when resolve_item returns NoInstance, no impl of the trait has a header that
\* unifies with the reference of the call, be it one that only inherits the item.
C1_ProvenAbsentSound ==
    (Resolving /\ result.tag = "NoInstance") =>
        \A n \in tcx.impls : ~Unifies(n, call)

\* C2: when still_specializable returns false for a user-defined source, no
\* descendant, at any depth, of the node that defines the leaf item both unifies
\* with the reference and implements the item itself.
C2_FalseIsStable ==
    (spec_ret = "false" /\ source.kind = "UserDefined") =>
        \A d \in Descendants(tcx, leaf_def(tcx, source.impl_def_id).defining_node) :
            ~(Unifies(d, call) /\ implements_item(tcx, d))

\* C2's case: the search was exhausted having pruned a child that did not unify,
\* below which a node implements the item
C2_Witness ==
    /\ spec_ret = "false" /\ source.kind = "UserDefined" /\ ret_path = "exhausted"
    /\ \E i \in 1..Len(popped) :
          /\ ~Unifies(popped[i], call)
          /\ \E d \in Descendants(tcx, popped[i]) : implements_item(tcx, d)

\* C3: when the selected impl's leaf definition of the item is not overridable,
\* still_specializable returns false before the orphan check and before any search,
\* and resolve_item returns the leaf item as Instance, with a substitution under
\* which the header of the node defining it is the reference of the call, followed
\* by the method's own arguments.
C3_FrozenOverride ==
    (Resolving /\ source.kind = "UserDefined"
        /\ ~(\/ ItemIsDefault(tcx, leaf_def(tcx, source.impl_def_id).defining_node)
             \/ NodeIsDefault(tcx, leaf_def(tcx, source.impl_def_id).defining_node))) =>
        LET leaf == leaf_def(tcx, source.impl_def_id)
            n == Len(impl_generics(leaf.defining_node))
        IN  /\ ret_path = "frozen"
            /\ popped = <<>>
            /\ trait_ref = from_method(call.substs)
            /\ result.tag = "Instance"
            /\ result.did = leaf.item
            /\ Len(result.substs) = n + 1
            /\ InstantiateImpl(leaf.defining_node, SubSeq(result.substs, 1, n))
                  = from_method(call.substs)
            /\ result.substs[n + 1] = call.substs[TraitArity + 1]

\* C3's case: a remote crate may implement the reference of the call, and the node
\* that defines the final item has children the search would have visited
C3_Witness ==
    /\ pc = "done" /\ ret_path = "frozen" /\ result.tag = "Instance"
    /\ orphan_check_ok(TargetOf(call))
    /\ get_children(tcx, result.did.owner) # <<>>

\* C9 as stated: to_opt returns the item and the substitution of the call for
\* Instance, UnknownFound and NotATraitItem, and nothing for UnknownNotFound and
\* NoInstance.
C9_ToOptAsStated ==
    pc = "done" =>
        /\ result.tag \in {"Instance", "UnknownFound", "NotATraitItem"} =>
              opt = Some(call.item, call.substs)
        /\ result.tag \in {"UnknownNotFound", "NoInstance"} => opt = None

\* C9 amended: to_opt returns the item and the substitution of the instance for
\* Instance, those of the call for UnknownFound and NotATraitItem, and nothing for
\* UnknownNotFound and NoInstance.
C9_ToOpt ==
    pc = "done" =>
        /\ result.tag = "Instance" => opt = Some(result.did, result.substs)
        /\ result.tag \in {"UnknownFound", "NotATraitItem"} =>
              opt = Some(call.item, call.substs)
        /\ result.tag \in {"UnknownNotFound", "NoInstance"} => opt = None

\* C9's case: an instance that is not the item of the call
C9_Witness ==
    /\ pc = "done" /\ result.tag = "Instance"
    /\ result.did # call.item /\ result.substs # call.substs
    /\ opt = Some(result.did, result.substs)

Count(seq, x) == Cardinality({i \in DOMAIN seq : seq[i] = x})

ParentSet(t, n) == {m \in DOMAIN t.children : n \in t.children[m]}

\* the number of paths of the graph from node a down to node b
RECURSIVE Paths(_, _, _)
RECURSIVE SumPaths(_, _, _)
Paths(t, a, b) == IF a = b THEN 1 ELSE SumPaths(t, ChildSet(t, a), b)
SumPaths(t, S, b) ==
    IF S = {} THEN 0
    ELSE LET c == CHOOSE x \in S : TRUE
         IN  Paths(t, c, b) + SumPaths(t, S \ {c}, b)

True == <<"true">>
Pred(name, ids) == <<"pred", name, ids>>
\* Term::conj, Term::implies, Term::forall
Conj(l, r) == <<"and", l, r>>
Implies(l, r) == <<"imp", l, r>>
Forall(binder, body) == <<"forall", binder[1], binder[2], body>>

Range(f) == {f[i] : i \in DOMAIN f}

\* Term::subst: the free occurrences of the identifiers of DOMAIN sub replaced
RECURSIVE Subst(_, _)
Subst(t, sub) ==
    CASE t[1] = "true" -> t
      [] t[1] = "pred" ->
            Pred(t[2], [i \in 1..Len(t[3]) |->
                          IF t[3][i] \in DOMAIN sub THEN sub[t[3][i]] ELSE t[3][i]])
      [] t[1] \in {"and", "imp"} -> <<t[1], Subst(t[2], sub), Subst(t[3], sub)>>
      [] t[1] = "forall" ->
            <<"forall", t[2], t[3],
              Subst(t[4], [x \in DOMAIN sub \ {t[2]} |-> sub[x]])>>

\* the identifiers free in a term, and all that occur in it
RECURSIVE FreeIds(_)
FreeIds(t) ==
    CASE t[1] = "true" -> {}
      [] t[1] = "pred" -> Range(t[3])
      [] t[1] \in {"and", "imp"} -> FreeIds(t[2]) \cup FreeIds(t[3])
      [] t[1] = "forall" -> FreeIds(t[4]) \ {t[2]}

RECURSIVE OccurringIds(_)
OccurringIds(t) ==
    CASE t[1] = "true" -> {}
      [] t[1] = "pred" -> Range(t[3])
      [] t[1] \in {"and", "imp"} -> OccurringIds(t[2]) \cup OccurringIds(t[3])
      [] t[1] = "forall" -> {t[2]} \cup OccurringIds(t[4])

\* the conjunction of a list of clauses, the first clause leftmost
RECURSIVE ConjAll(_, _)
ConjAll(cs, i) ==
    IF i = 0 THEN True
    ELSE IF i = 1 THEN cs[1]
    ELSE Conj(ConjAll(cs, i - 1), cs[i])

\* PreContract::requires_conj and ::ensures_conj
requires_conj(contract) == ConjAll(contract.requires, Len(contract.requires))
ensures_conj(contract) == ConjAll(contract.ensures, Len(contract.ensures))

\* name::result()
ResultId == <<"result", 0>>

\* PreSignature::add_type_invariant_spec: a clause for every parameter, and one for
\* the result, that the value upholds the invariant of its type
add_type_invariant_spec(sig) ==
    [sig EXCEPT
        !.contract.requires =
            @ \o [i \in 1..Len(sig.inputs) |-> Pred("inv", <<sig.inputs[i].id>>)],
        !.contract.ensures = @ \o << Pred("inv", <<ResultId>>) >>]

\* EarlyBinder::bind(sig).instantiate(tcx, refn_subst): the trait's Self in the
\* types of the signature replaced by the Self type of the impl
InstTy(ty, self_ty) == IF ty = "Self" THEN self_ty ELSE ty
instantiate_sig(sig, self_ty) ==
    [sig EXCEPT !.inputs = [i \in 1..Len(sig.inputs) |->
                              [sig.inputs[i] EXCEPT !.ty = InstTy(@, self_ty)]],
                !.output = InstTy(@, self_ty)]

(***************************************************************************)
(* logic_refinement_term (lines 120-165).                                  *)
(***************************************************************************)
\* lines 129-138: the two signatures with their contracts
refinement_sigs(trait_sig, impl_sig, self_ty, pearlite) ==
    LET ts == instantiate_sig(trait_sig, self_ty)
    IN  IF ~pearlite
        THEN [trait |-> add_type_invariant_spec(ts),
              impl |-> add_type_invariant_spec(impl_sig)]
        ELSE [trait |-> ts, impl |-> impl_sig]

\* lines 141-146: the parameters zipped; the quantified variables and the
\* substitution of the impl's identifiers
zip_len(ts, is) == Min(Len(ts.inputs), Len(is.inputs))
refinement_args(ts, is) ==
    [i \in 1..zip_len(ts, is) |-> <<ts.inputs[i].id, is.inputs[i].ty>>]
refinement_subst(ts, is) ==
    [y \in {is.inputs[i].id : i \in 1..zip_len(ts, is)} |->
        ts.inputs[CHOOSE i \in 1..zip_len(ts, is) :
                      /\ is.inputs[i].id = y
                      /\ \A j \in (i + 1)..zip_len(ts, is) : is.inputs[j].id # y].id]

\* a postcondition left over the impl's own identifiers
impl_postcond_unsubstituted(is, sub) == ensures_conj(is.contract)

\* lines 148-154: the contracts of the impl over the trait's identifiers
impl_precond(is, sub) == Subst(requires_conj(is.contract), sub)
impl_postcond(is, sub) == Subst(ensures_conj(is.contract), sub)

\* a fold from the first parameter on, which leaves the last one outermost
RECURSIVE fold_from(_, _, _)
fold_from(args, j, acc) ==
    IF j > Len(args) THEN acc ELSE fold_from(args, j + 1, Forall(args[j], acc))
quantify_fold(args, i, acc) == fold_from(args, 1, acc)

\* line 162: args.into_iter().rfold(refn, |acc, r| acc.forall(r)) from index i down
RECURSIVE quantify(_, _, _)
quantify(args, i, acc) ==
    IF i = 0 THEN acc ELSE quantify(args, i - 1, Forall(args[i], acc))

\* lines 156-164
logic_refinement_term(ts, is) ==
    LET sub == refinement_subst(ts, is)
        args == refinement_args(ts, is)
        post_refn == Forall(<<ResultId, is.output>>,
                            Implies(impl_postcond(is, sub), ensures_conj(ts.contract)))
        body == Implies(requires_conj(ts.contract),
                        Conj(impl_precond(is, sub), post_refn))
    IN  quantify(args, Len(args), body)

(***************************************************************************)
(* The signatures logic_refinement_term is checked on.                     *)
(***************************************************************************)
\* the identifiers of the parameters of the trait's item and of the impl's item
TraitIdent(i) == <<"x", i>>
ImplIdent(i) == <<"y", i>>
\* an identifier a contract binds itself
BoundIdent == <<"z", 0>>

\* the receiver has the type Self, the other parameters and the result are Int
ParamTy(i) == IF i = 1 THEN "Self" ELSE "Int"
SelfTy == "Point"

\* clauses over the identifiers v of a signature with n parameters
ReqClauses(v(_), n) ==
    {Pred("p", <<v(i)>>) : i \in 1..n}
    \cup (IF n >= 2 THEN {Pred("q", <<v(1), v(n)>>)} ELSE {})
    \cup (IF n >= 1
          THEN {Forall(<<BoundIdent, "Int">>, Pred("r", <<BoundIdent, v(1)>>))}
          ELSE {})
EnsClauses(v(_), n) ==
    {Pred("e", <<ResultId>>)} \cup {Pred("f", <<ResultId, v(i)>>) : i \in 1..n}

Contracts(v(_), n) ==
    {[requires |-> r, ensures |-> e] :
        r \in {<<>>} \cup {<<c>> : c \in ReqClauses(v, n)}
              \cup (IF n >= 2 THEN {<<Pred("p", <<v(1)>>), Pred("q", <<v(1), v(n)>>)>>}
                    ELSE {}),
        e \in {<<>>} \cup {<<c>> : c \in EnsClauses(v, n)}}

\* the declared signatures of an item of the trait and of the item implementing it
TraitSigs(n) ==
    {[inputs |-> [i \in 1..n |-> [id |-> TraitIdent(i), ty |-> ParamTy(i)]],
      output |-> "Int", contract |-> c] : c \in Contracts(TraitIdent, n)}
ImplSigs(n) ==
    {[inputs |-> [i \in 1..n |-> [id |-> ImplIdent(i), ty |-> InstTy(ParamTy(i), SelfTy)]],
      output |-> "Int", contract |-> c] : c \in Contracts(ImplIdent, n)}

RefnInit ==
    /\ \E n \in 0..MaxParams :
          sigs \in {[decl_trait |-> t, decl_impl |-> m, self_ty |-> SelfTy,
                     pearlite |-> b, trait |-> NoSig, impl |-> NoSig] :
                        t \in TraitSigs(n), m \in ImplSigs(n), b \in BOOLEAN}
    /\ rpc = "sigs"
    /\ refn = NoTerm
    /\ ResolveIdle /\ ImplIdle

\* lines 126-138
PrepareSigs ==
    /\ rpc = "sigs"
    /\ LET r == refinement_sigs(sigs.decl_trait, sigs.decl_impl, sigs.self_ty,
                                sigs.pearlite)
       IN  sigs' = [sigs EXCEPT !.trait = r.trait, !.impl = r.impl]
    /\ rpc' = "term"
    /\ UNCHANGED <<refn, resolveVars, implVars>>

\* lines 140-164
BuildTerm ==
    /\ rpc = "term"
    /\ refn' = logic_refinement_term(sigs.trait, sigs.impl)
    /\ rpc' = "done"
    /\ UNCHANGED <<sigs, resolveVars, implVars>>

RefnNext == PrepareSigs \/ BuildTerm

SpecRefn == RefnInit /\ [][RefnNext]_vars

(***************************************************************************)
(* Properties of the refinement term.                                      *)
(***************************************************************************)
\* the impl's identifiers replaced, by position, by the trait's
ByPosition(n) == [y \in {ImplIdent(i) : i \in 1..n} |-> TraitIdent(y[2])]

\* quantifiers over the parameters from the i-th on, the i-th outermost
RECURSIVE NestFrom(_, _, _)
NestFrom(i, n, core) ==
    IF i > n THEN core
    ELSE <<"forall", TraitIdent(i), sigs.decl_impl.inputs[i].ty, NestFrom(i + 1, n, core)>>

\* C6: without type invariants injected, the term is exactly
\*   forall a1. ... forall an. P_i ==> (P_m[a] /\ forall result. (Q_m[a] ==> Q_i))
\* with one quantifier for every parameter, the first parameter's outermost.
C6_ContractImplication ==
    (rpc = "done" /\ sigs.pearlite) =>
        LET n == Len(sigs.decl_trait.inputs)
            P_i == requires_conj(sigs.decl_trait.contract)
            Q_i == ensures_conj(sigs.decl_trait.contract)
            P_m == Subst(requires_conj(sigs.decl_impl.contract), ByPosition(n))
            Q_m == Subst(ensures_conj(sigs.decl_impl.contract), ByPosition(n))
        IN  refn = NestFrom(1, n,
                     <<"imp", P_i,
                       <<"and", P_m,
                         <<"forall", ResultId, sigs.decl_impl.output,
                           <<"imp", Q_m, Q_i>> >> >> >>)

\* C6's case: two parameters, and all four contracts stated
C6_Witness ==
    /\ rpc = "done" /\ sigs.pearlite /\ Len(sigs.decl_trait.inputs) = 2
    /\ Len(sigs.decl_trait.contract.requires) = 2
    /\ sigs.decl_trait.contract.ensures # <<>>
    /\ ImplIdent(2) \in FreeIds(requires_conj(sigs.decl_impl.contract))
    /\ ImplIdent(2) \in FreeIds(ensures_conj(sigs.decl_impl.contract))
    /\ refn[1] = "forall" /\ refn[2] = TraitIdent(1)
    /\ refn[4][1] = "forall" /\ refn[4][2] = TraitIdent(2)
    /\ refn[4][4][1] = "imp"

\* a term under its n outermost quantifiers, and the identifiers those bind
RECURSIVE Strip(_, _)
Strip(t, n) == IF n = 0 THEN t ELSE Strip(t[4], n - 1)
RECURSIVE Binders(_, _)
Binders(t, n) == IF n = 0 THEN <<>> ELSE <<t[2]>> \o Binders(t[4], n - 1)

\* C7: the identifiers of the term outside the contracts' own binders are the
\* identifiers shared by the paired parameters and the result identifier, each
\* bound by a quantifier of the term; no identifier of a parameter of the impl's
\* item is left in it.
C7_WellFormed ==
    rpc = "done" =>
        LET n == Len(sigs.trait.inputs)
            shared == {sigs.trait.inputs[i].id : i \in 1..n}
            own == {sigs.impl.inputs[i].id : i \in 1..Len(sigs.impl.inputs)}
        IN  /\ FreeIds(refn) = {}
            /\ Binders(refn, n) = [i \in 1..n |-> sigs.trait.inputs[i].id]
            /\ FreeIds(Strip(refn, n)) \subseteq shared
            /\ OccurringIds(refn) \ {BoundIdent} \subseteq shared \cup {ResultId}
            /\ OccurringIds(refn) \cap own = {}

\* C7's case: type invariants injected, two parameters, the impl's contracts over
\* its own identifiers, one under a binder of the contract
C7_Witness ==
    /\ rpc = "done" /\ ~sigs.pearlite /\ Len(sigs.impl.inputs) = 2
    /\ ImplIdent(1) \in FreeIds(requires_conj(sigs.decl_impl.contract))
    /\ BoundIdent \in OccurringIds(requires_conj(sigs.decl_impl.contract))
    /\ ImplIdent(2) \in FreeIds(ensures_conj(sigs.decl_impl.contract))
    /\ OccurringIds(refn) = {TraitIdent(1), TraitIdent(2), ResultId, BoundIdent}

(***************************************************************************)
(* translate_impl (lines 57-117).                                          *)
(***************************************************************************)
\* the DefIds of the i-th item of the trait and of the item of impl im implementing it
trait_item_id(i) == [kind |-> "assoc", owner |-> TraitDef, index |-> i]
impl_item_id(im, i) == [kind |-> "assoc", owner |-> im.impl_id, index |-> i]

\* get_very_stable_hash of the pair of DefIds: a function of their content alone,
\* injective, and in no relation to the order of definition
get_very_stable_hash(trait_item, impl_item) ==
    (5 * trait_item.index + 3 * impl_item.owner) % 7

\* lines 62-69: impl_item_implementor_ids, sorted by the hash of each pair
implementor_map(im) ==
    LET order == SortBy(DOMAIN im.items,
                        [i \in DOMAIN im.items |->
                            get_very_stable_hash(trait_item_id(i), impl_item_id(im, i))])
    IN  [k \in 1..Len(order) |->
            [trait_item |-> trait_item_id(order[k]),
             impl_item |-> impl_item_id(im, order[k])]]

\* is_law, def_kind(..).is_fn_like(), is_pearlite and extern_spec(..).predicates_for
is_law(im, trait_item) == im.items[trait_item.index].law
is_fn_like(im, trait_item) == im.items[trait_item.index].fn_like
is_pearlite(im, impl_item) == im.items[impl_item.index].law
predicates_for(im, trait_item) == im.items[trait_item.index].preds

\* a vector of laws that no item is pushed on
push_law_never(ls, im, pair) == ls

\* lines 71-73
push_law(ls, im, pair) ==
    IF is_law(im, pair.trait_item) THEN Append(ls, pair.impl_item) ELSE ls

\* every impl taken to be of the local crate
is_local_always(im) == TRUE

\* line 76: impl_id.is_local()
is_local(im) == im.local

\* line 80: erased_identity_for_item, the parameters of the impl and then the item's
item_generics(i) == IF i % 2 = 0 THEN << <<"Q1">> >> ELSE <<>>
erased_identity_for_item(im, impl_item) ==
    [k \in 1..Len(impl_generics(im.impl_id)) |-> <<impl_generics(im.impl_id)[k]>>]
        \o item_generics(impl_item.index)

\* line 82: subst.rebase_onto(tcx, impl_id, trait_ref.args)
refn_subst_of(im, impl_item) ==
    rebase_onto(erased_identity_for_item(im, impl_item),
                Len(impl_generics(im.impl_id)), impl_trait_ref(im.impl_id))

\* lines 173-181: every predicate registered, and the errors of those that fail
evaluate_additional_predicates(p) ==
    LET errors == SelectSeq(p, LAMBDA x : x = "fails")
    IN  IF errors # <<>> THEN [ok |-> FALSE, errs |-> errors]
        ELSE [ok |-> TRUE, errs |-> <<>>]

\* TranslationCtx::crash_and_error: the diagnostic is fatal, translation ends
crash_and_error == "crashed"

\* errors of the solver passed over
after_solver_ignoring(res) == "loop"

\* lines 103-106
after_solver(res) == IF ~res.ok THEN crash_and_error ELSE "loop"

\* ctx.sig of the i-th item of the trait and of the item implementing it
item_arity(i) == Min(i - 1, MaxParams)
trait_sig(i) ==
    [inputs |-> [k \in 1..item_arity(i) |-> [id |-> TraitIdent(k), ty |-> ParamTy(k)]],
     output |-> "Int",
     contract |-> [requires |-> [k \in 1..item_arity(i) |-> Pred("p", <<TraitIdent(k)>>)],
                   ensures |-> << Pred("e", <<ResultId>>) >>]]
impl_sig(im, i) ==
    [inputs |-> [k \in 1..item_arity(i) |->
                    [id |-> ImplIdent(k),
                     ty |-> InstTy(ParamTy(k), impl_trait_ref(im.impl_id)[1])]],
     output |-> "Int",
     contract |-> [requires |-> <<>>,
                   ensures |-> [k \in 1..item_arity(i) |->
                                   Pred("f", <<ResultId, ImplIdent(k)>>)]]]

\* lines 108-113
Refinement(im, pair) ==
    LET r == refinement_sigs(trait_sig(pair.trait_item.index),
                             impl_sig(im, pair.impl_item.index),
                             impl_trait_ref(im.impl_id)[1],
                             is_pearlite(im, pair.impl_item))
    IN  [trait_ |-> <<pair.trait_item, refn_subst_of(im, pair.impl_item)>>,
         impl_ |-> <<pair.impl_item, erased_identity_for_item(im, pair.impl_item)>>,
         refn |-> logic_refinement_term(r.trait, r.impl)]

\* line 58: the assertion fails
TranslateImplNotTrait ==
    /\ ipc = "start" /\ ~impl.of_trait
    /\ ipc' = "panic"
    /\ UNCHANGED <<impl, idx, laws, refinements, solver, trait_impl, resolveVars, refnVars>>

\* lines 58-69
TranslateImplBegin ==
    /\ ipc = "start" /\ impl.of_trait
    /\ laws' = <<>> /\ refinements' = <<>> /\ idx' = 1
    /\ ipc' = "loop"
    /\ UNCHANGED <<impl, solver, trait_impl, resolveVars, refnVars>>

InLoop == ipc = "loop" /\ idx <= Len(implementor_map(impl))
Pair == implementor_map(impl)[idx]

\* lines 70-78: an iteration for an impl of another crate
IterExternal ==
    /\ InLoop /\ ~is_local(impl)
    /\ laws' = push_law(laws, impl, Pair)
    /\ idx' = idx + 1
    /\ UNCHANGED <<impl, ipc, refinements, solver, trait_impl, resolveVars, refnVars>>

\* lines 70-86: an iteration for an item that is not a function
IterNotFn ==
    /\ InLoop /\ is_local(impl) /\ ~is_fn_like(impl, Pair.trait_item)
    /\ laws' = push_law(laws, impl, Pair)
    /\ idx' = idx + 1
    /\ UNCHANGED <<impl, ipc, refinements, solver, trait_impl, resolveVars, refnVars>>

\* the call of lines 89-102, as the history keeps it
SolverCall ==
    [trait_item |-> Pair.trait_item, impl_item |-> Pair.impl_item,
     res |-> evaluate_additional_predicates(predicates_for(impl, Pair.trait_item))]

\* lines 70-106: an iteration whose extra predicates fail
IterCrash ==
    /\ InLoop /\ is_local(impl) /\ is_fn_like(impl, Pair.trait_item)
    /\ after_solver(SolverCall.res) = "crashed"
    /\ laws' = push_law(laws, impl, Pair)
    /\ solver' = Append(solver, SolverCall)
    /\ ipc' = "crashed"
    /\ UNCHANGED <<impl, idx, refinements, trait_impl, resolveVars, refnVars>>

\* lines 70-113: an iteration that pushes a refinement
IterRefine ==
    /\ InLoop /\ is_local(impl) /\ is_fn_like(impl, Pair.trait_item)
    /\ after_solver(SolverCall.res) = "loop"
    /\ laws' = push_law(laws, impl, Pair)
    /\ solver' = Append(solver, SolverCall)
    /\ refinements' = Append(refinements, Refinement(impl, Pair))
    /\ idx' = idx + 1
    /\ UNCHANGED <<impl, ipc, trait_impl, resolveVars, refnVars>>

\* line 116
TranslateImplReturn ==
    /\ ipc = "loop" /\ idx > Len(implementor_map(impl))
    /\ trait_impl' = [some |-> TRUE, laws |-> laws, refinements |-> refinements]
    /\ ipc' = "returned"
    /\ UNCHANGED <<impl, idx, laws, refinements, solver, resolveVars, refnVars>>

ImplNext ==
    \/ TranslateImplNotTrait
    \/ TranslateImplBegin
    \/ IterExternal
    \/ IterNotFn
    \/ IterCrash
    \/ IterRefine
    \/ TranslateImplReturn

\* what tcx may say of one pair: a law is a function; the predicates of an extern
\* spec hold or fail
ItemFacts ==
    {[fn_like |-> f, law |-> l, preds |-> p] :
        f \in BOOLEAN, l \in BOOLEAN,
        p \in {<<>>, <<"holds">>, <<"fails">>, <<"holds", "fails">>}}
ValidItem(it) == it.law => it.fn_like

\* the impls translate_impl is called on: an impl of the trait with its pairs, local
\* or not, or an inherent impl, which implements no item of a trait
TraitImpls ==
    {[impl_id |-> n, of_trait |-> TRUE, local |-> l, items |-> its] :
        n \in {2, 3}, l \in BOOLEAN,
        its \in UNION {[1..k -> {it \in ItemFacts : ValidItem(it)}] : k \in 0..MaxItems}}
InherentImpls ==
    {[impl_id |-> n, of_trait |-> FALSE, local |-> TRUE, items |-> <<>>] : n \in {2, 3}}

ImplInit ==
    /\ impl \in TraitImpls \cup InherentImpls
    /\ ipc = "start" /\ idx = 0 /\ laws = <<>> /\ refinements = <<>>
    /\ solver = <<>> /\ trait_impl = NoTraitImpl
    /\ ResolveIdle /\ RefnIdle

SpecImpl == ImplInit /\ [][ImplNext]_vars

(***************************************************************************)
(* Properties of translate_impl.                                           *)
(***************************************************************************)
\* the items of the impl that implement a law of the trait
LawItems == {i \in DOMAIN impl.items : impl.items[i].law}
HasRefinement(rs, did) == \E k \in 1..Len(rs) : rs[k].impl_[1] = did

LawsOf(im) ==
    LET m == implementor_map(im)
        lawful == SelectSeq(m, LAMBDA pr : im.items[pr.trait_item.index].law)
    IN  [k \in 1..Len(lawful) |-> lawful[k].impl_item]

\* C5: the laws returned are those of the pairs and their law tags, whatever the
\* locality of the impl; for an external impl no refinement is pushed and the
\* solver is never called.
C5_ExternalImpl ==
    /\ ipc = "returned" => trait_impl.laws = LawsOf([impl EXCEPT !.local = ~@])
    /\ (ipc # "idle" /\ ~impl.local) =>
          /\ refinements = <<>> /\ trait_impl.refinements = <<>>
          /\ solver = <<>>

\* C5's case: an external impl returned with two laws, and with a function whose
\* extra predicates fail
C5_Witness ==
    /\ ipc = "returned" /\ ~impl.local /\ impl.of_trait
    /\ Len(trait_impl.laws) >= 2
    /\ \E i \in DOMAIN impl.items :
          impl.items[i].fn_like /\ "fails" \in Range(impl.items[i].preds)

\* the place of an item of the impl in the order of iteration
PlaceOf(did) ==
    CHOOSE k \in 1..Len(implementor_map(impl)) : implementor_map(impl)[k].impl_item = did

\* C8: when the solver reports errors for a pair, that call is the last one, no
\* pair is given to the solver twice, no TraitImpl is returned, and no Refinement
\* is pushed for that pair or for a pair after it in the order of iteration.
C8_FailureIsFatal ==
    /\ \A k, l \in 1..Len(solver) : solver[k].impl_item = solver[l].impl_item => k = l
    /\ \A k \in 1..Len(solver) :
          ~solver[k].res.ok =>
              /\ k = Len(solver)
              /\ ipc = "crashed"
              /\ trait_impl = NoTraitImpl
              /\ \A j \in 1..Len(refinements) :
                    PlaceOf(refinements[j].impl_[1]) < PlaceOf(solver[k].impl_item)

\* C8's case: the solver fails for the second of three functions
C8_Witness ==
    /\ ipc = "crashed" /\ Len(solver) = 2 /\ Len(refinements) = 1
    /\ ~solver[2].res.ok /\ solver[2].res.errs = <<"fails">>
    /\ PlaceOf(solver[2].impl_item) < Len(implementor_map(impl))
    /\ \A i \in DOMAIN impl.items : impl.items[i].fn_like

====
